---- MODULE Spec2Model ----
(***************************************************************************)
(* Triagem: the processing pipeline of the unified case dashboard          *)
(* (27-triagem-cop.py): column normalization, the upload of several files, *)
(* tag extraction, arrival-date resolution, the statistics and the         *)
(* manual-assignment ledger.                                               *)
(*                                                                         *)
(* Representation.  A text cell is the sequence of its pieces ("atoms"):   *)
(* "Servidor 01, Urgente" is <<"Servidor", " 01", ", ", "Urgente">>, and   *)
(* "02/01, 10:00:00" is <<"02", "01", ",", " 10:00:00">> (the slashes of   *)
(* a date are implicit between its pieces).  A numeric cell is <<n>>.  An  *)
(* empty cell, which pandas reads as NaN, is the empty sequence; NaT is    *)
(* the same value, as pd.isna treats both alike.  A calendar date is its   *)
(* ordinal in a calendar of Meses months of DiasPorMes days.               *)
(***************************************************************************)
EXTENDS Integers, Sequences, FiniteSets, TLC

VARIABLES df_final, data_referencia, processed_df, stats,
          atribuicoes_servidores, fase,
          uploaded_files, df_lido, df_padronizado, avisos

vars == <<df_final, data_referencia, processed_df, stats,
          atribuicoes_servidores, fase,
          uploaded_files, df_lido, df_padronizado, avisos>>

(***************************************************************************)
(* Bounds of the model.                                                    *)
(***************************************************************************)
MaxLinhas == 2
MaxTagLen == 4
Meses == 2
DiasPorMes == 3
PrimeiroHoje == 3
MaxServidores == 2
MaxColunas == 2
MaxArquivos == 2
MaxRepetidos == 2
MaxDesvio == 2

(***************************************************************************)
(* pandas' missing values.                                                 *)
(***************************************************************************)
NaN == <<>>
NaT == <<>>
isna(x) == x = <<>>

(***************************************************************************)
(* The fixed roster and the sentinels.                                     *)
(***************************************************************************)
SERVIDORES_DISPONIVEIS ==
    << <<"Servidor", " 01">>, <<"Servidor", " 02">>, <<"Servidor", " 03">>,
       <<"Servidor", " 04">>, <<"Servidor", " 05">>, <<"Servidor", " 06">>,
       <<"Servidor", " 07 - ES">>, <<"Servidor", " 09 - ES">>,
       <<"Supervisão", " 08">> >>

Roster == {SERVIDORES_DISPONIVEIS[i] : i \in 1..Len(SERVIDORES_DISPONIVEIS)}

SemEtiqueta == <<"Sem etiqueta">>
NaoAtribuido == <<"Não atribuído">>
VaraNaoIdentificada == <<"Vara não identificada">>
SemOuNaoAtribuido == <<"Sem ou Não Atribuído">>

(***************************************************************************)
(* str.split(sep) and str.strip() on a text cell.                          *)
(***************************************************************************)
RECURSIVE split(_, _)
split(s, sep) ==
    IF \A i \in 1..Len(s) : s[i] # sep
    THEN <<s>>
    ELSE LET k == CHOOSE i \in 1..Len(s) :
                      s[i] = sep /\ \A j \in 1..(i - 1) : s[j] # sep
         IN  <<SubSeq(s, 1, k - 1)>> \o split(SubSeq(s, k + 1, Len(s)), sep)

RECURSIVE strip(_)
strip(s) ==
    IF s = <<>> THEN s
    ELSE IF Head(s) = " " THEN strip(Tail(s))
    ELSE IF s[Len(s)] = " " THEN strip(SubSeq(s, 1, Len(s) - 1))
    ELSE s

\* 'marca' in tag
contem(tag, marca) == \E i \in 1..Len(tag) : tag[i] = marca

(***************************************************************************)
(* Tag extraction.                                                         *)
(***************************************************************************)
\* mutant: the 'Supervisão' marker is not looked for
RECURSIVE buscar_servidor_sem_supervisao(_)
buscar_servidor_sem_supervisao(tags_list) ==
    IF tags_list = <<>> THEN NaoAtribuido
    ELSE LET tag == Head(tags_list)
         IN  IF tag \in Roster THEN tag
             ELSE IF contem(tag, "Servidor") THEN tag
             ELSE buscar_servidor_sem_supervisao(Tail(tags_list))

\* mutant: one sentinel for both cases, as 22.triagem-contadJEFs.py had it
RECURSIVE buscar_servidor_uma_sentinela(_)
buscar_servidor_uma_sentinela(tags_list) ==
    IF tags_list = <<>> THEN SemEtiqueta
    ELSE LET tag == Head(tags_list)
         IN  IF contem(tag, "Servidor") \/ contem(tag, "Supervisão") THEN tag
             ELSE buscar_servidor_uma_sentinela(Tail(tags_list))

RECURSIVE buscar_servidor(_)
buscar_servidor(tags_list) ==
    IF tags_list = <<>> THEN NaoAtribuido
    ELSE LET tag == Head(tags_list)
         IN  IF tag \in Roster THEN tag
             ELSE IF contem(tag, "Servidor") \/ contem(tag, "Supervisão") THEN tag
             ELSE buscar_servidor(Tail(tags_list))

extrair_servidor(tags) ==
    IF isna(tags) THEN SemEtiqueta
    ELSE buscar_servidor(split(tags, ", "))

\* mutant: the last token containing 'Vara Federal'
RECURSIVE buscar_vara_ultima(_)
buscar_vara_ultima(tags_list) ==
    IF tags_list = <<>> THEN VaraNaoIdentificada
    ELSE IF contem(tags_list[Len(tags_list)], "Vara Federal") THEN tags_list[Len(tags_list)]
    ELSE buscar_vara_ultima(SubSeq(tags_list, 1, Len(tags_list) - 1))

RECURSIVE buscar_vara(_)
buscar_vara(tags_list) ==
    IF tags_list = <<>> THEN VaraNaoIdentificada
    ELSE IF contem(Head(tags_list), "Vara Federal") THEN Head(tags_list)
    ELSE buscar_vara(Tail(tags_list))

extrair_vara(tags) ==
    IF isna(tags) THEN VaraNaoIdentificada
    ELSE buscar_vara(split(tags, ", "))

(***************************************************************************)
(* Dates.  A day-first date text <<"DD", "MM">> parses to its ordinal when *)
(* both pieces are numbers and name a day of the calendar, else to NaT     *)
(* (errors='coerce').                                                      *)
(***************************************************************************)
Numeros == {"00", "01", "02", "03", "04", "05", "06", "07", "08", "09"}

NumeroDe(a) ==
    CASE a = "00" -> 0 [] a = "01" -> 1 [] a = "02" -> 2 [] a = "03" -> 3
      [] a = "04" -> 4 [] a = "05" -> 5 [] a = "06" -> 6 [] a = "07" -> 7
      [] a = "08" -> 8 [] a = "09" -> 9

ordinal(dia, mes) == (mes - 1) * DiasPorMes + dia
mes_de(d) == ((d - 1) \div DiasPorMes) + 1
dia_de(d) == ((d - 1) % DiasPorMes) + 1

\* pd.to_datetime(texto, errors='coerce', dayfirst=True)
to_datetime(texto) ==
    IF isna(texto) THEN NaT
    ELSE IF /\ Len(texto) = 2
            /\ texto[1] \in Numeros /\ texto[2] \in Numeros
            /\ NumeroDe(texto[1]) \in 1..DiasPorMes
            /\ NumeroDe(texto[2]) \in 1..Meses
         THEN <<ordinal(NumeroDe(texto[1]), NumeroDe(texto[2]))>>
         ELSE NaT

\* the part before the first comma, stripped, parsed day-first
extrair_data_chegada_raw(data_str) ==
    IF isna(data_str) THEN NaT
    ELSE to_datetime(strip(split(data_str, ",")[1]))

\* mutant: the days are added to the reference date
calcular_data_chegada_somando(dias_transcorridos, hoje) ==
    IF isna(dias_transcorridos) THEN NaT
    ELSE <<hoje + dias_transcorridos[1]>>

\* int(dias_transcorridos); data_referencia - timedelta(days=dias)
calcular_data_chegada_painel_gerencial(dias_transcorridos, hoje) ==
    IF isna(dias_transcorridos) THEN NaT
    ELSE <<hoje - dias_transcorridos[1]>>

\* Series.isna().all()
todas_nat(obj) == \A i \in DOMAIN obj : isna(obj[i])

(***************************************************************************)
(* processar_dados, column by column.  df is [cols, rows]: the columns the *)
(* unified frame has and its rows; a cell of a column the frame lacks is   *)
(* never read.                                                             *)
(***************************************************************************)
coluna_etiquetas(df) ==
    [i \in 1..Len(df.rows) |->
        IF "ETIQUETAS" \in df.cols THEN df.rows[i].ETIQUETAS ELSE SemEtiqueta]

coluna_servidor(df) ==
    [i \in 1..Len(df.rows) |-> extrair_servidor(coluna_etiquetas(df)[i])]

coluna_vara(df) ==
    [i \in 1..Len(df.rows) |->
        LET v == extrair_vara(coluna_etiquetas(df)[i])
        IN  IF "ORGAO_JULGADOR" \in df.cols /\ v = VaraNaoIdentificada
            THEN df.rows[i].ORGAO_JULGADOR
            ELSE v]

\* A. Prioridade 1
prioridade1(df) ==
    [i \in 1..Len(df.rows) |->
        IF "DATA_CHEGADA_FORMATADA_INPUT" \in df.cols
        THEN to_datetime(df.rows[i].DATA_CHEGADA_FORMATADA_INPUT)
        ELSE NaT]

\* B. Prioridade 2: the guard of the block, then the masked assignment
aplica_prioridade2(df, obj) ==
    todas_nat(obj) /\ "DATA_CHEGADA_RAW" \in df.cols

prioridade2(df, obj) ==
    [i \in 1..Len(df.rows) |->
        IF aplica_prioridade2(df, obj) /\ isna(obj[i])
        THEN extrair_data_chegada_raw(df.rows[i].DATA_CHEGADA_RAW)
        ELSE obj[i]]

\* C. Prioridade 3: the guard of the block, then the masked assignment
aplica_prioridade3(df, obj) ==
    todas_nat(obj) /\ "DIAS_TRANSCORRIDOS" \in df.cols

prioridade3(df, obj, hoje) ==
    [i \in 1..Len(df.rows) |->
        IF aplica_prioridade3(df, obj) /\ isna(obj[i])
        THEN calcular_data_chegada_painel_gerencial(
                 df.rows[i].DIAS_TRANSCORRIDOS, hoje)
        ELSE obj[i]]

coluna_data_chegada_obj(df, hoje) ==
    prioridade3(df, prioridade2(df, prioridade1(df)), hoje)

\* mutant: 'DIAS' taken from DIAS_TRANSCORRIDOS whenever the column exists
dias_do_painel_sem_guarda(df) == "DIAS_TRANSCORRIDOS" \in df.cols

\* 'DIAS' is set inside the Prioridade 3 block: DIAS_TRANSCORRIDOS.fillna(0).astype(int)
dias_do_painel(df) ==
    aplica_prioridade3(df, prioridade2(df, prioridade1(df)))

\* (data_referencia - data_chegada_obj).dt.days, when 'DIAS' is not yet a column
dias_calculados(chegada, hoje) == hoje - chegada

coluna_DIAS(df, hoje) ==
    [i \in 1..Len(df.rows) |->
        IF dias_do_painel(df)
        THEN IF isna(df.rows[i].DIAS_TRANSCORRIDOS) THEN 0
             ELSE df.rows[i].DIAS_TRANSCORRIDOS[1]
        ELSE IF isna(coluna_data_chegada_obj(df, hoje)[i]) THEN 0
        ELSE dias_calculados(coluna_data_chegada_obj(df, hoje)[i][1], hoje)]

\* dropna(subset=['data_chegada_obj']): the rows kept, in frame order
linhas_com_data(df, hoje) ==
    SelectSeq([i \in 1..Len(df.rows) |-> i],
              LAMBDA i : ~isna(coluna_data_chegada_obj(df, hoje)[i]))

linha_com(df, hoje, i, chegada) ==
    [NUMERO_PROCESSO   |-> df.rows[i].NUMERO_PROCESSO,
     POLO_PASSIVO      |-> df.rows[i].POLO_PASSIVO,
     ORGAO_JULGADOR    |-> df.rows[i].ORGAO_JULGADOR,
     ASSUNTO_PRINCIPAL |-> df.rows[i].ASSUNTO_PRINCIPAL,
     ETIQUETAS         |-> coluna_etiquetas(df)[i],
     servidor          |-> coluna_servidor(df)[i],
     vara              |-> coluna_vara(df)[i],
     data_chegada_obj  |-> chegada,
     mes               |-> mes_de(chegada),
     dia               |-> dia_de(chegada),
     DIAS              |-> coluna_DIAS(df, hoje)[i]]

linha_processada(df, hoje, i) ==
    linha_com(df, hoje, i, coluna_data_chegada_obj(df, hoje)[i][1])

\* sort_values('data_chegada_obj', ascending=False); equal dates keep frame order
sort_values_desc(linhas) ==
    LET n == Len(linhas)
        pos(i) == 1 + Cardinality({j \in 1..n :
                      \/ linhas[j].data_chegada_obj > linhas[i].data_chegada_obj
                      \/ /\ linhas[j].data_chegada_obj = linhas[i].data_chegada_obj
                         /\ j < i})
    IN  [p \in 1..n |-> linhas[CHOOSE i \in 1..n : pos(i) = p]]

\* mutant: no dropna, an unresolved row is kept and dated today
processar_dados_sem_dropna(df, hoje) ==
    sort_values_desc(
        [i \in 1..Len(df.rows) |->
            linha_com(df, hoje, i,
                IF isna(coluna_data_chegada_obj(df, hoje)[i]) THEN hoje
                ELSE coluna_data_chegada_obj(df, hoje)[i][1])])

processar_dados(df, hoje) ==
    LET mantidas == linhas_com_data(df, hoje)
    IN  sort_values_desc(
            [k \in 1..Len(mantidas) |-> linha_processada(df, hoje, mantidas[k])])

(***************************************************************************)
(* criar_estatisticas.  A frequency table is a sequence of                 *)
(* [valor, n], in the order of the pandas Series.                          *)
(***************************************************************************)
TopN == 10

\* the values at their first appearance, missing ones left out when dropna
valores_distintos(vals, dropna) ==
    LET primeiras == SelectSeq([i \in 1..Len(vals) |-> i],
                         LAMBDA i : /\ \A j \in 1..(i - 1) : vals[j] # vals[i]
                                    /\ (dropna => ~isna(vals[i])))
    IN  [k \in 1..Len(primeiras) |-> vals[primeiras[k]]]

contagem(vals, v) == Cardinality({i \in 1..Len(vals) : vals[i] = v})

\* mutant: value_counts(sort=False), the values in order of first appearance
sem_ordenar(tab) == tab

\* descending by count, equal counts in order of first appearance
ordenar_por_contagem(tab) ==
    LET n == Len(tab)
        pos(i) == 1 + Cardinality({j \in 1..n :
                      tab[j].n > tab[i].n \/ (tab[j].n = tab[i].n /\ j < i)})
    IN  [p \in 1..n |-> tab[CHOOSE i \in 1..n : pos(i) = p]]

\* ascending by value (Series.sort_index on an integer index)
sort_index(tab) ==
    LET n == Len(tab)
        pos(i) == 1 + Cardinality({j \in 1..n : tab[j].valor < tab[i].valor})
    IN  [p \in 1..n |-> tab[CHOOSE i \in 1..n : pos(i) = p]]

value_counts(vals, dropna) ==
    LET d == valores_distintos(vals, dropna)
    IN  ordenar_por_contagem(
            [k \in 1..Len(d) |-> [valor |-> d[k], n |-> contagem(vals, d[k])]])

head(s, k) == SubSeq(s, 1, IF Len(s) < k THEN Len(s) ELSE k)

Sentinelas == {SemEtiqueta, NaoAtribuido}

\* mutant: the sentinels counted like any other owner
servidor_stats_sem_balde(df) ==
    value_counts([i \in 1..Len(df) |-> df[i].servidor], TRUE)

\* mutant: the records of the sentinels left out of the table
servidor_stats_so_nomeados(df) ==
    value_counts(SelectSeq([i \in 1..Len(df) |-> df[i].servidor],
                           LAMBDA v : v \notin Sentinelas), TRUE)

servidor_stats(df) ==
    LET reais == SelectSeq([i \in 1..Len(df) |-> df[i].servidor],
                           LAMBDA v : v \notin Sentinelas)
        nao_atribuidos_count ==
            Cardinality({i \in 1..Len(df) : df[i].servidor \in Sentinelas})
    IN  IF nao_atribuidos_count > 0
        THEN Append(value_counts(reais, TRUE),
                    [valor |-> SemOuNaoAtribuido, n |-> nao_atribuidos_count])
        ELSE value_counts(reais, TRUE)

criar_estatisticas(df) ==
    [polo_passivo |-> head(value_counts([i \in 1..Len(df) |-> df[i].POLO_PASSIVO], TRUE), TopN),
     mes          |-> sort_index(value_counts([i \in 1..Len(df) |-> df[i].mes], FALSE)),
     servidor     |-> servidor_stats(df),
     vara         |-> head(value_counts([i \in 1..Len(df) |-> df[i].vara], TRUE), TopN),
     assunto      |-> head(value_counts([i \in 1..Len(df) |-> df[i].ASSUNTO_PRINCIPAL], TRUE), TopN)]

(***************************************************************************)
(* main: the manual assignments applied over the processed frame, in       *)
(* ledger order.                                                           *)
(***************************************************************************)
\* mutant: the ledger's court written into the owner column
RECURSIVE aplicar_atribuicoes_vara(_, _)
aplicar_atribuicoes_vara(df, atribuicoes) ==
    IF atribuicoes = <<>> THEN df
    ELSE aplicar_atribuicoes_vara(
             [i \in 1..Len(df) |->
                 IF df[i].NUMERO_PROCESSO = Head(atribuicoes).NUMERO_PROCESSO
                 THEN [df[i] EXCEPT !.servidor = Head(atribuicoes).vara]
                 ELSE df[i]],
             Tail(atribuicoes))

\* mutant: each ledger row written to every record, matching or not
RECURSIVE aplicar_atribuicoes_a_todos(_, _)
aplicar_atribuicoes_a_todos(df, atribuicoes) ==
    IF atribuicoes = <<>> THEN df
    ELSE aplicar_atribuicoes_a_todos(
             [i \in 1..Len(df) |-> [df[i] EXCEPT !.servidor = Head(atribuicoes).servidor]],
             Tail(atribuicoes))

RECURSIVE aplicar_atribuicoes(_, _)
aplicar_atribuicoes(df, atribuicoes) ==
    IF atribuicoes = <<>> THEN df
    ELSE aplicar_atribuicoes(
             [i \in 1..Len(df) |->
                 IF df[i].NUMERO_PROCESSO = Head(atribuicoes).NUMERO_PROCESSO
                 THEN [df[i] EXCEPT !.servidor = Head(atribuicoes).servidor]
                 ELSE df[i]],
             Tail(atribuicoes))

\* one run of the script over the uploaded files and the session's ledger
quadro(df, hoje, atribuicoes) ==
    aplicar_atribuicoes(processar_dados(df, hoje), atribuicoes)

(***************************************************************************)
(* Tab 4: the queue offered for manual assignment.                         *)
(***************************************************************************)
FilaMax == 10

processos_ja_atribuidos(atribuicoes) ==
    {atribuicoes[k].NUMERO_PROCESSO : k \in 1..Len(atribuicoes)}

\* mutant: every record offered, with owner or without, assigned or not
processos_disponiveis_todos(df, atribuicoes) == df

processos_disponiveis(df, atribuicoes) ==
    SelectSeq(df, LAMBDA r : /\ r.servidor \in Sentinelas
                             /\ r.NUMERO_PROCESSO \notin processos_ja_atribuidos(atribuicoes))

\* mutant: head(10) of the available cases in the order of the batch
processos_para_atribuir_sem_ordenar(df, atribuicoes) ==
    head(processos_disponiveis(df, atribuicoes), FilaMax)

\* sort_values(by=['data_chegada_obj', 'NUMERO_PROCESSO'], ascending=[True, True]).head(10)
processos_para_atribuir(df, atribuicoes) ==
    LET d == processos_disponiveis(df, atribuicoes)
        n == Len(d)
        antes(a, b) == \/ a.data_chegada_obj < b.data_chegada_obj
                       \/ /\ a.data_chegada_obj = b.data_chegada_obj
                          /\ a.NUMERO_PROCESSO[1] < b.NUMERO_PROCESSO[1]
        pos(i) == 1 + Cardinality({j \in 1..n : antes(d[j], d[i])})
    IN  head([p \in 1..n |-> d[CHOOSE i \in 1..n : pos(i) = p]], FilaMax)

\* mutant: the entry written with the owner the row already had
nova_atribuicao_mesmo_dono(row_data, servidor_selecionado) ==
    [NUMERO_PROCESSO   |-> row_data.NUMERO_PROCESSO,
     vara              |-> row_data.vara,
     ORGAO_JULGADOR    |-> row_data.ORGAO_JULGADOR,
     servidor          |-> row_data.servidor,
     POLO_PASSIVO      |-> row_data.POLO_PASSIVO,
     ASSUNTO_PRINCIPAL |-> row_data.ASSUNTO_PRINCIPAL]

nova_atribuicao(row_data, servidor_selecionado) ==
    [NUMERO_PROCESSO   |-> row_data.NUMERO_PROCESSO,
     vara              |-> row_data.vara,
     ORGAO_JULGADOR    |-> row_data.ORGAO_JULGADOR,
     servidor          |-> servidor_selecionado,
     POLO_PASSIVO      |-> row_data.POLO_PASSIVO,
     ASSUNTO_PRINCIPAL |-> row_data.ASSUNTO_PRINCIPAL]

\* mutant: the new entries appended twice
atribuir_em_lote_repetindo(atribuicoes, fila, selecionados, servidor_selecionado) ==
    LET escolhidas == SelectSeq(fila, LAMBDA r : r.NUMERO_PROCESSO \in selecionados)
    IN  SelectSeq(atribuicoes, LAMBDA a : a.NUMERO_PROCESSO \notin selecionados)
        \o [k \in 1..Len(escolhidas) |->
               nova_atribuicao(escolhidas[k], servidor_selecionado)]
        \o [k \in 1..Len(escolhidas) |->
               nova_atribuicao(escolhidas[k], servidor_selecionado)]

\* the old entries of the selected cases removed, the new ones appended
atribuir_em_lote(atribuicoes, fila, selecionados, servidor_selecionado) ==
    LET escolhidas == SelectSeq(fila, LAMBDA r : r.NUMERO_PROCESSO \in selecionados)
    IN  SelectSeq(atribuicoes, LAMBDA a : a.NUMERO_PROCESSO \notin selecionados)
        \o [k \in 1..Len(escolhidas) |->
               nova_atribuicao(escolhidas[k], servidor_selecionado)]

\* the empty text, the first option of the select box of servers
OpcaoVazia == <<>>

\* mutant: the handler without the test of its two selections
confirmar_sem_verificar(atribuicoes, fila, selecionados, servidor_selecionado) ==
    atribuir_em_lote(atribuicoes, fila, selecionados, servidor_selecionado)

\* the ledger the confirm button leaves:
\* if processos_selecionados and servidor_selecionado: ... else: st.warning
confirmar(atribuicoes, fila, selecionados, servidor_selecionado) ==
    IF selecionados # {} /\ servidor_selecionado # OpcaoVazia
    THEN atribuir_em_lote(atribuicoes, fila, selecionados, servidor_selecionado)
    ELSE atribuicoes

(***************************************************************************)
(* The unified column map and the column normalizer.  A frame as read from *)
(* a CSV has its header, columns, in file order, and its rows, linhas,     *)
(* each holding one cell per header position.                              *)
(***************************************************************************)
COLUNA_MAP ==
    << [padrao |-> "NUMERO_PROCESSO",
        possiveis |-> <<"Número do Processo", "numeroProcesso", "Nº Processo">>],
       [padrao |-> "POLO_ATIVO",
        possiveis |-> <<"Polo Ativo", "poloAtivo">>],
       [padrao |-> "POLO_PASSIVO",
        possiveis |-> <<"Polo Passivo", "poloPassivo">>],
       [padrao |-> "ORGAO_JULGADOR",
        possiveis |-> <<"Órgão Julgador", "orgaoJulgador", "Vara">>],
       [padrao |-> "ASSUNTO_PRINCIPAL",
        possiveis |-> <<"Assunto", "assuntoPrincipal", "Assunto Principal">>],
       [padrao |-> "TAREFA",
        possiveis |-> <<"Tarefa", "nomeTarefa">>],
       [padrao |-> "ETIQUETAS",
        possiveis |-> <<"Etiquetas", "tagsProcessoList">>],
       [padrao |-> "DIAS_TRANSCORRIDOS",
        possiveis |-> <<"Dias">>],
       [padrao |-> "DATA_ULTIMO_MOVIMENTO_RAW",
        possiveis |-> <<"Data Último Movimento">>],
       [padrao |-> "DATA_CHEGADA_RAW",
        possiveis |-> <<"dataChegada">>],
       [padrao |-> "DATA_CHEGADA_FORMATADA_INPUT",
        possiveis |-> <<"Data Chegada">>] >>

DataFrame(columns, linhas) == [columns |-> columns, linhas |-> linhas]

nomes(columns) == {columns[k] : k \in 1..Len(columns)}

\* next(..., None): no alias of the list is a column of the frame
Nenhuma == ""

\* mutant: the last alias of the list that exists in the frame
RECURSIVE ultima_encontrada(_, _)
ultima_encontrada(possiveis, columns) ==
    IF possiveis = <<>> THEN Nenhuma
    ELSE IF possiveis[Len(possiveis)] \in nomes(columns) THEN possiveis[Len(possiveis)]
    ELSE ultima_encontrada(SubSeq(possiveis, 1, Len(possiveis) - 1), columns)

\* next((col for col in possiveis if col in df.columns), None)
RECURSIVE coluna_encontrada(_, _)
coluna_encontrada(possiveis, columns) ==
    IF possiveis = <<>> THEN Nenhuma
    ELSE IF Head(possiveis) \in nomes(columns) THEN Head(possiveis)
    ELSE coluna_encontrada(Tail(possiveis), columns)

\* the dictionary built by the loop over COLUNA_MAP: found alias -> padrao
colunas_padronizadas(columns) ==
    LET achadas == {k \in 1..Len(COLUNA_MAP) :
                       coluna_encontrada(COLUNA_MAP[k].possiveis, columns) # Nenhuma}
    IN  [a \in {coluna_encontrada(COLUNA_MAP[k].possiveis, columns) : k \in achadas} |->
            COLUNA_MAP[CHOOSE k \in achadas :
                coluna_encontrada(COLUNA_MAP[k].possiveis, columns) = a].padrao]

\* mutant: the columns outside the dictionary dropped
rename_e_filtra(df, mapa) ==
    LET ficam == SelectSeq([k \in 1..Len(df.columns) |-> k],
                           LAMBDA k : df.columns[k] \in DOMAIN mapa)
    IN  DataFrame([p \in 1..Len(ficam) |-> mapa[df.columns[ficam[p]]]],
                  [i \in 1..Len(df.linhas) |->
                      [p \in 1..Len(ficam) |-> df.linhas[i][ficam[p]]]])

\* DataFrame.rename(columns=mapa): the header renamed name by name, the
\* cells untouched
rename(df, mapa) ==
    DataFrame([k \in 1..Len(df.columns) |->
                  IF df.columns[k] \in DOMAIN mapa
                  THEN mapa[df.columns[k]]
                  ELSE df.columns[k]],
              df.linhas)

\* the frame the call leaves in its argument, which is also the one returned
mapear_e_padronizar_colunas(df) ==
    rename(df, colunas_padronizadas(df.columns))

(***************************************************************************)
(* 22.triagem-contadJEFs.py: the timestamps of 'dataChegada'.  A cell of   *)
(* digits is <<q, r>>, the number 1000 * q + r with q >= 1 and r < 1000,   *)
(* so that the thirteen digits of a millisecond timestamp fit the          *)
(* integers of the checker.  A date got from a timestamp is the number of  *)
(* its day since the epoch.                                                *)
(***************************************************************************)
RECURSIVE digitos(_)
digitos(n) == IF n < 10 THEN 1 ELSE 1 + digitos(n \div 10)

\* len(data_str)
comprimento(data_str) == digitos(data_str[1]) + 3

\* 253402300799 = 1000 * LimiteEmMilhares + 799
LimiteEmMilhares == 253402300

\* timestamp_ms > 253402300799
acima_do_limite(data_str) ==
    \/ data_str[1] > LimiteEmMilhares
    \/ data_str[1] = LimiteEmMilhares /\ data_str[2] > 799

\* datetime.fromtimestamp(timestamp_ms / 1000): the day of q seconds
dia_em_milissegundos(data_str) == data_str[1] \div 86400

\* datetime.fromtimestamp(timestamp_ms): the day of 1000 * q + r seconds,
\* (1000 q + r) div 86400 = (5 q + r div 200) div 432
dia_em_segundos(data_str) == (5 * data_str[1] + data_str[2] \div 200) \div 432

\* mutant: every timestamp read as milliseconds (25-triagem.py, unit='ms')
extrair_data_chegada_sempre_ms(data_str) ==
    IF isna(data_str) THEN NaT
    ELSE IF comprimento(data_str) > 10 THEN <<dia_em_milissegundos(data_str)>>
    ELSE NaT

\* Caso 2 of extrair_data_chegada, for a cell of digits
extrair_data_chegada(data_str) ==
    IF isna(data_str) THEN NaT
    ELSE IF comprimento(data_str) > 10
         THEN IF acima_do_limite(data_str)
              THEN <<dia_em_milissegundos(data_str)>>
              ELSE <<dia_em_segundos(data_str)>>
         ELSE NaT

\* processar_dados of 22.triagem-contadJEFs.py, as far as the arrival date:
\* the rows whose date could be extracted, most recent first
processar_dados_22(df) ==
    LET datas == [i \in 1..Len(df.rows) |-> extrair_data_chegada(df.rows[i].DATA_CHEGADA_RAW)]
        mantidas == SelectSeq([i \in 1..Len(df.rows) |-> i], LAMBDA i : ~isna(datas[i]))
    IN  sort_values_desc(
            [k \in 1..Len(mantidas) |->
                [NUMERO_PROCESSO  |-> df.rows[mantidas[k]].NUMERO_PROCESSO,
                 ETIQUETAS        |-> df.rows[mantidas[k]].ETIQUETAS,
                 DATA_CHEGADA_RAW |-> df.rows[mantidas[k]].DATA_CHEGADA_RAW,
                 data_chegada_obj |-> datas[mantidas[k]][1]]])

(***************************************************************************)
(* The inputs of the model.                                                *)
(***************************************************************************)
Colunas == {"NUMERO_PROCESSO", "POLO_PASSIVO", "ORGAO_JULGADOR", "ASSUNTO_PRINCIPAL",
            "ETIQUETAS", "DIAS_TRANSCORRIDOS", "DATA_ULTIMO_MOVIMENTO_RAW",
            "DATA_CHEGADA_RAW", "DATA_CHEGADA_FORMATADA_INPUT"}

ColunasDeData == {"DIAS_TRANSCORRIDOS", "DATA_CHEGADA_RAW",
                  "DATA_CHEGADA_FORMATADA_INPUT"}

ColunasDeEtiqueta == {"ORGAO_JULGADOR", "ETIQUETAS"}

\* the frames met: every column, or every column but one of the given ones
SemUmaDe(opcionais) == {Colunas} \cup {Colunas \ {c} : c \in opcionais}

MsPorDia == 86400000

Hojes == {PrimeiroHoje, PrimeiroHoje + 1}

\* a frame of the given columns: row i is case <<i>>, and the cells of a
\* column the frame lacks are empty
frame(cols, linhas) ==
    [cols |-> cols,
     rows |-> [i \in 1..Len(linhas) |->
                 [c \in Colunas |->
                     IF c = "NUMERO_PROCESSO" THEN <<i>>
                     ELSE IF c \in cols THEN linhas[i][c] ELSE NaN]]]

(***************************************************************************)
(* main: the uploaded files read, normalized, unified and deduplicated.    *)
(* An uploaded file is [legivel, conteudo]: whether pd.read_csv could read *)
(* it, and the frame read.                                                 *)
(***************************************************************************)
\* mutant: the read error not caught, the loop ends at the first file that
\* cannot be read
lidos_ate_a_falha(arquivos) ==
    LET falhas == {k \in 1..Len(arquivos) : ~arquivos[k].legivel}
    IN  IF falhas = {} THEN arquivos
        ELSE SubSeq(arquivos, 1, (CHOOSE k \in falhas : \A j \in falhas : k <= j) - 1)

\* the files that pass the try/except of the read, in upload order
lidos(arquivos) == SelectSeq(arquivos, LAMBDA f : f.legivel)

\* all_dfs: the normalized frame of every file read that has the case
\* number column, in upload order
all_dfs(arquivos) ==
    LET padronizados == [k \in 1..Len(lidos(arquivos)) |->
                            mapear_e_padronizar_colunas(lidos(arquivos)[k].conteudo)]
    IN  SelectSeq(padronizados, LAMBDA d : "NUMERO_PROCESSO" \in nomes(d.columns))

\* the messages of the loop, in upload order: st.warning for a file that
\* could not be read, st.error for a file read that, normalized, has no
\* case number column
avisos_da_leitura(arquivos) ==
    LET aviso(k) ==
            IF ~arquivos[k].legivel
            THEN <<[arquivo |-> k, nivel |-> "warning"]>>
            ELSE IF "NUMERO_PROCESSO"
                      \notin nomes(mapear_e_padronizar_colunas(arquivos[k].conteudo).columns)
                 THEN <<[arquivo |-> k, nivel |-> "error"]>>
                 ELSE <<>>
        ate[k \in 0..Len(arquivos)] == IF k = 0 THEN <<>> ELSE ate[k - 1] \o aviso(k)
    IN  ate[Len(arquivos)]

\* st.error("Nenhum arquivo válido pôde ser lido para a análise.")
NenhumArquivoValido == [arquivo |-> 0, nivel |-> "error"]

\* row i of a frame under the labels the pipeline reads; a label the frame
\* lacks is an empty cell, as pd.concat leaves it
registro(df, i) ==
    [c \in Colunas |->
        IF c \in nomes(df.columns)
        THEN df.linhas[i][CHOOSE k \in 1..Len(df.columns) : df.columns[k] = c]
        ELSE NaN]

\* pd.concat(all_dfs, ignore_index=True): the union of the columns, the
\* rows of each frame after those of the frames before it
RECURSIVE concat(_)
concat(dfs) ==
    IF dfs = <<>> THEN [cols |-> {}, rows |-> <<>>]
    ELSE LET resto == concat(Tail(dfs))
         IN  [cols |-> nomes(Head(dfs).columns) \cup resto.cols,
              rows |-> [i \in 1..Len(Head(dfs).linhas) |-> registro(Head(dfs), i)]
                       \o resto.rows]

\* mutant: drop_duplicates(subset=['NUMERO_PROCESSO'], keep='last')
drop_duplicates_ultima(df) ==
    LET ultimas == SelectSeq([i \in 1..Len(df.rows) |-> i],
                       LAMBDA i : \A j \in (i + 1)..Len(df.rows) :
                           df.rows[j].NUMERO_PROCESSO # df.rows[i].NUMERO_PROCESSO)
    IN  [cols |-> df.cols,
         rows |-> [k \in 1..Len(ultimas) |-> df.rows[ultimas[k]]]]

\* drop_duplicates(subset=['NUMERO_PROCESSO'], keep='first')
drop_duplicates(df) ==
    LET primeiras == SelectSeq([i \in 1..Len(df.rows) |-> i],
                         LAMBDA i : \A j \in 1..(i - 1) :
                             df.rows[j].NUMERO_PROCESSO # df.rows[i].NUMERO_PROCESSO)
    IN  [cols |-> df.cols,
         rows |-> [k \in 1..Len(primeiras) |-> df.rows[primeiras[k]]]]

unificar(arquivos) == drop_duplicates(concat(all_dfs(arquivos)))

DataValida == <<"03", "01">>
DataInvalida == <<"00", "01">>
TarefaFutura == <<"02", "02", ",", " 10:00:00">>

\* rows met by processar_dados: every combination of the date signals, with
\* and without tags
RegistrosProc ==
    [NUMERO_PROCESSO              : {NaN},
     POLO_PASSIVO                 : {<<"INSS">>},
     ORGAO_JULGADOR               : {<<"15a Vara">>},
     ASSUNTO_PRINCIPAL            : {<<"Aposentadoria">>},
     ETIQUETAS                    : {NaN, <<"Servidor", " 01", ", ", "1a ", "Vara Federal">>},
     DIAS_TRANSCORRIDOS           : {NaN, <<-1>>, <<2>>},
     DATA_ULTIMO_MOVIMENTO_RAW    : {<<MsPorDia + 3600000>>},
     DATA_CHEGADA_RAW             : {NaN, TarefaFutura},
     DATA_CHEGADA_FORMATADA_INPUT : {NaN, DataInvalida, DataValida}]

Lotes(registros, maximo) ==
    {frame(c, l) : c \in SemUmaDe(ColunasDeData),
                   l \in UNION {[1..n -> registros] : n \in 1..maximo}}

\* tag strings: every text of at most MaxTagLen pieces
Atomos == {"Servidor", "Supervisão", " 01", " 08", "Urgente", "Vara Federal", ", "}

TextosDeEtiquetas == {NaN} \cup UNION {[1..n -> Atomos] : n \in 1..MaxTagLen}

RegistroDatado(etiquetas, orgao) ==
    [NUMERO_PROCESSO              |-> NaN,
     POLO_PASSIVO                 |-> <<"INSS">>,
     ORGAO_JULGADOR               |-> orgao,
     ASSUNTO_PRINCIPAL            |-> <<"Aposentadoria">>,
     ETIQUETAS                    |-> etiquetas,
     DIAS_TRANSCORRIDOS           |-> NaN,
     DATA_ULTIMO_MOVIMENTO_RAW    |-> NaN,
     DATA_CHEGADA_RAW             |-> NaN,
     DATA_CHEGADA_FORMATADA_INPUT |-> DataValida]

\* rows met by the dashboard: dated or not, tagged with an owner or not
RegistrosPainel ==
    [NUMERO_PROCESSO              : {NaN},
     POLO_PASSIVO                 : {<<"INSS">>},
     ORGAO_JULGADOR               : {<<"15a Vara">>},
     ASSUNTO_PRINCIPAL            : {<<"Aposentadoria">>},
     ETIQUETAS                    : {NaN, <<"Urgente">>, <<"Servidor", " 02">>,
                                     <<"Servidor", " externo">>},
     DIAS_TRANSCORRIDOS           : {NaN},
     DATA_ULTIMO_MOVIMENTO_RAW    : {NaN},
     DATA_CHEGADA_RAW             : {NaN},
     DATA_CHEGADA_FORMATADA_INPUT : {NaN, DataValida, <<"01", "01">>}]

\* the servers chosen in the select box: the first MaxServidores of the roster
ServidoresEscolhidos == {SERVIDORES_DISPONIVEIS[i] : i \in 1..MaxServidores}

\* options=[""] + SERVIDORES_DISPONIVEIS
OpcoesDeServidor == {OpcaoVazia} \cup ServidoresEscolhidos

\* the columns the final filter of processar_dados lets through
cols_to_remove == {"DATA_ULTIMO_MOVIMENTO_RAW", "DATA_CHEGADA_RAW",
                   "DATA_CHEGADA_FORMATADA_INPUT", "DIAS_TRANSCORRIDOS"}

cols_to_keep ==
    ({COLUNA_MAP[k].padrao : k \in 1..Len(COLUNA_MAP)}
     \cup {"servidor", "vara", "data_chegada_obj", "mes", "dia",
           "data_chegada_formatada_final", "DIAS"})
    \ cols_to_remove

\* headers met by the normalizer: every alias of the map, and a header the
\* map does not know
NomesDeOrigem ==
    UNION {nomes(COLUNA_MAP[k].possiveis) : k \in 1..Len(COLUNA_MAP)} \cup {"Prioridade"}

Cabecalhos ==
    {c \in UNION {[1..n -> NomesDeOrigem] : n \in 1..MaxColunas} :
        \A j, k \in 1..Len(c) : j # k => c[j] # c[k]}

\* a frame of one row under the given header; each cell holds the name of
\* the column it was read under
QuadroLido(columns) ==
    DataFrame(columns, <<[k \in 1..Len(columns) |-> <<columns[k]>>]>>)

\* the headers of the uploaded files: the dashboard's export, the API's
\* export (which carries two aliases of the subject and a column the map
\* does not know), and an export whose case number has an unknown header
LeiautePainel == <<"Número do Processo", "Etiquetas", "Data Chegada">>
LeiauteApi == <<"numeroProcesso", "tagsProcessoList", "Data Chegada",
                "Assunto", "Assunto Principal", "Prioridade">>
LeiauteSemNumero == <<"Processo", "Etiquetas", "Data Chegada">>

Leiautes == {LeiautePainel, LeiauteApi, LeiauteSemNumero}

EtiquetaDoServidor == <<"Servidor", " 02">>

\* a row of a file: the case number, the tag string, a valid arrival date
\* and, under the API's header, the three further cells
linha_do_arquivo(leiaute, numero, etiquetas) ==
    IF leiaute = LeiauteApi
    THEN <<numero, etiquetas, DataValida, <<"Aposentadoria">>, <<"Benefício">>, <<"alta">>>>
    ELSE <<numero, etiquetas, DataValida>>

\* the rows of a file: one or two cases, or the same case twice with
\* different tags
ConteudosDe(leiaute) ==
    UNION {{ <<linha_do_arquivo(leiaute, <<1>>, e[1])>>,
             <<linha_do_arquivo(leiaute, <<2>>, e[1])>>,
             <<linha_do_arquivo(leiaute, <<1>>, e[1]), linha_do_arquivo(leiaute, <<2>>, e[1])>>,
             <<linha_do_arquivo(leiaute, <<1>>, e[1]), linha_do_arquivo(leiaute, <<1>>, e[2])>> } :
           e \in {<<NaN, EtiquetaDoServidor>>, <<EtiquetaDoServidor, NaN>>}}

ArquivoIlegivel == [legivel |-> FALSE, conteudo |-> DataFrame(<<>>, <<>>)]

Arquivos ==
    UNION {{[legivel |-> TRUE, conteudo |-> DataFrame(l, c)] : c \in ConteudosDe(l)} :
           l \in Leiautes}
    \cup {ArquivoIlegivel}

\* batches for the statistics: one case of each of TopN + 1 classes, in
\* either order, then at most MaxRepetidos further cases of any class.  The
\* cases of class k share the opposing party, the adjudicating body and the
\* subject; the first classes are tagged with the roster's servers, one
\* each, the others have no tag
Classes == 1..(TopN + 1)

TextoDe(n) == CHOOSE a \in Numeros : NumeroDe(a) = n

RegistroDaClasse(k) ==
    [NUMERO_PROCESSO              |-> NaN,
     POLO_PASSIVO                 |-> <<"Réu ", ToString(k)>>,
     ORGAO_JULGADOR               |-> <<ToString(k), "a Vara">>,
     ASSUNTO_PRINCIPAL            |-> <<"Assunto ", ToString(k)>>,
     ETIQUETAS                    |-> IF k <= Len(SERVIDORES_DISPONIVEIS)
                                      THEN SERVIDORES_DISPONIVEIS[k] ELSE NaN,
     DIAS_TRANSCORRIDOS           |-> NaN,
     DATA_ULTIMO_MOVIMENTO_RAW    |-> NaN,
     DATA_CHEGADA_RAW             |-> NaN,
     DATA_CHEGADA_FORMATADA_INPUT |-> <<TextoDe(((k - 1) % DiasPorMes) + 1),
                                        TextoDe(((k * k) % Meses) + 1)>>]

LotesDeClasses ==
    {[i \in 1..(TopN + 1) |-> IF crescente THEN i ELSE TopN + 2 - i] \o repetidos :
        crescente \in BOOLEAN,
        repetidos \in UNION {[1..n -> Classes] : n \in 0..MaxRepetidos}}

\* timestamps met by 22.triagem-contadJEFs.py: within MaxDesvio thousands of
\* a ten-digit timestamp in seconds, of the first number of eleven digits,
\* of the limit, and of a thirteen-digit timestamp in milliseconds
Centros == {1700000, 10000000, LimiteEmMilhares, 1700000000}

Restos == {0, 799, 800, 999}

Carimbos ==
    {<<c + d, r>> : c \in Centros, d \in (0 - MaxDesvio)..MaxDesvio, r \in Restos}

RegistroComCarimbo(carimbo) ==
    [NUMERO_PROCESSO              |-> NaN,
     POLO_PASSIVO                 |-> <<"INSS">>,
     ORGAO_JULGADOR               |-> <<"15a Vara">>,
     ASSUNTO_PRINCIPAL            |-> <<"Aposentadoria">>,
     ETIQUETAS                    |-> NaN,
     DIAS_TRANSCORRIDOS           |-> NaN,
     DATA_ULTIMO_MOVIMENTO_RAW    |-> NaN,
     DATA_CHEGADA_RAW             |-> carimbo,
     DATA_CHEGADA_FORMATADA_INPUT |-> NaN]

(***************************************************************************)
(* The state machine.  fase is "upload" until the script has run over the  *)
(* uploaded files, "painel" once the dashboard shows.                      *)
(***************************************************************************)
\* batches for the queue: more cases than the queue shows, none tagged,
\* arrived on one of two days; the cases up to a position arrived on one
\* day and the others on the other day
DataAnterior == <<"02", "01">>

RegistroDaFila(data) ==
    [RegistroDatado(NaN, <<"15a Vara">>) EXCEPT !.DATA_CHEGADA_FORMATADA_INPUT = data]

LotesDaFila ==
    UNION {{[i \in 1..n |-> RegistroDaFila(IF i <= p THEN d[1] ELSE d[2])] :
               p \in 0..n, d \in {<<DataAnterior, DataValida>>, <<DataValida, DataAnterior>>}} :
           n \in (FilaMax + 1)..(FilaMax + MaxLinhas)}

InicioComum ==
    /\ processed_df = <<>>
    /\ stats = criar_estatisticas(<<>>)
    /\ atribuicoes_servidores = <<>>
    /\ avisos = <<>>
    /\ fase = "upload"
    /\ uploaded_files = <<>>
    /\ df_lido = DataFrame(<<>>, <<>>)
    /\ df_padronizado = DataFrame(<<>>, <<>>)

Init ==
    /\ df_final \in {frame(Colunas, l) :
                        l \in UNION {[1..n -> RegistrosPainel] : n \in 1..MaxLinhas}}
    /\ data_referencia = PrimeiroHoje
    /\ InicioComum

InitProc ==
    /\ df_final \in Lotes(RegistrosProc, MaxLinhas)
    /\ data_referencia \in Hojes
    /\ InicioComum

InitTags ==
    /\ df_final \in {frame(c, <<RegistroDatado(e, o)>>) :
                        c \in SemUmaDe(ColunasDeEtiqueta),
                        e \in TextosDeEtiquetas,
                        o \in {NaN, <<"15a Vara">>}}
    /\ data_referencia = PrimeiroHoje
    /\ InicioComum

\* the script's run after an upload or a rerun
Atualizar(atribuicoes) ==
    /\ processed_df' = quadro(df_final, data_referencia, atribuicoes)
    /\ stats' = criar_estatisticas(quadro(df_final, data_referencia, atribuicoes))
    /\ atribuicoes_servidores' = atribuicoes
    /\ fase' = "painel"
    /\ UNCHANGED <<df_final, data_referencia, uploaded_files, df_lido, df_padronizado,
                   avisos>>

Processar ==
    /\ fase = "upload"
    /\ Atualizar(atribuicoes_servidores)

\* the options of the multiselect: the cases of the queue shown
OpcoesDeProcesso ==
    {processos_para_atribuir(processed_df, atribuicoes_servidores)[k].NUMERO_PROCESSO :
        k \in 1..Len(processos_para_atribuir(processed_df, atribuicoes_servidores))}

\* "Confirmar Atribuição em Lote" with cases and a server selected: the
\* ledger is written and the script reruns
ConfirmarAtribuicao ==
    /\ fase = "painel"
    /\ \E selecionados \in SUBSET OpcoesDeProcesso,
          servidor_selecionado \in OpcoesDeServidor :
          /\ selecionados # {} /\ servidor_selecionado # OpcaoVazia
          /\ Atualizar(confirmar(atribuicoes_servidores,
                          processos_para_atribuir(processed_df, atribuicoes_servidores),
                          selecionados, servidor_selecionado))

\* the same button with no case or no server selected: a warning, no rerun
ConfirmarSemSelecao ==
    /\ fase = "painel"
    /\ processos_disponiveis(processed_df, atribuicoes_servidores) # <<>>
    /\ \E selecionados \in SUBSET OpcoesDeProcesso,
          servidor_selecionado \in OpcoesDeServidor :
          /\ selecionados = {} \/ servidor_selecionado = OpcaoVazia
          /\ atribuicoes_servidores' =
                 confirmar(atribuicoes_servidores,
                     processos_para_atribuir(processed_df, atribuicoes_servidores),
                     selecionados, servidor_selecionado)
    /\ UNCHANGED <<df_final, data_referencia, processed_df, stats, fase,
                   uploaded_files, df_lido, df_padronizado, avisos>>

\* mutant: only the newest ledger row removed
LimparSoAUltima ==
    /\ fase = "painel"
    /\ atribuicoes_servidores # <<>>
    /\ Atualizar(SubSeq(atribuicoes_servidores, 1, Len(atribuicoes_servidores) - 1))

\* "Limpar todas Atribuições Manuais"
LimparAtribuicoes ==
    /\ fase = "painel"
    /\ atribuicoes_servidores # <<>>
    /\ Atualizar(<<>>)

Next == Processar \/ ConfirmarAtribuicao \/ ConfirmarSemSelecao \/ LimparAtribuicoes

Spec == Init /\ [][Next]_vars

\* processar_dados alone, over every frame of the bounds
SpecProc == InitProc /\ [][Processar]_vars

\* the tag extraction alone, over every tag string of the bounds, with and
\* without the tag and adjudicating-body columns
SpecTags == InitTags /\ [][Processar]_vars

\* the normalizer alone, over every header of the bounds
InitNorm ==
    /\ df_lido \in {QuadroLido(c) : c \in Cabecalhos}
    /\ df_padronizado = DataFrame(<<>>, <<>>)
    /\ fase = "leitura"
    /\ uploaded_files = <<>>
    /\ df_final = frame({}, <<>>)
    /\ data_referencia = PrimeiroHoje
    /\ processed_df = <<>>
    /\ stats = criar_estatisticas(<<>>)
    /\ atribuicoes_servidores = <<>>
    /\ avisos = <<>>

\* df_padronizado = mapear_e_padronizar_colunas(df.copy()): the rename
\* lands on the copy
Padronizar ==
    /\ fase = "leitura"
    /\ df_padronizado' = mapear_e_padronizar_colunas(df_lido)
    /\ fase' = "padronizado"
    /\ UNCHANGED <<df_lido, uploaded_files, df_final, data_referencia,
                   processed_df, stats, atribuicoes_servidores, avisos>>

\* df_padronizado = mapear_e_padronizar_colunas(df), the call of
\* 23-triagem.py: the rename lands on the caller's frame
PadronizarSemCopia ==
    /\ fase = "leitura"
    /\ df_lido' = mapear_e_padronizar_colunas(df_lido)
    /\ df_padronizado' = mapear_e_padronizar_colunas(df_lido)
    /\ fase' = "padronizado no lugar"
    /\ UNCHANGED <<uploaded_files, df_final, data_referencia,
                   processed_df, stats, atribuicoes_servidores, avisos>>

SpecNorm == InitNorm /\ [][Padronizar \/ PadronizarSemCopia]_vars

\* the upload alone: every sequence of at most MaxArquivos files
InitIngest ==
    /\ uploaded_files \in UNION {[1..n -> Arquivos] : n \in 1..MaxArquivos}
    /\ df_lido = DataFrame(<<>>, <<>>)
    /\ df_padronizado = DataFrame(<<>>, <<>>)
    /\ fase = "arquivos"
    /\ df_final = [cols |-> {}, rows |-> <<>>]
    /\ data_referencia = PrimeiroHoje
    /\ processed_df = <<>>
    /\ stats = criar_estatisticas(<<>>)
    /\ atribuicoes_servidores = <<>>
    /\ avisos = <<>>

\* the loop over the uploaded files leaves in df and df_padronizado the
\* frames of the last file it could read
UltimoLido ==
    IF lidos(uploaded_files) = <<>>
    THEN UNCHANGED <<df_lido, df_padronizado>>
    ELSE /\ df_lido' = lidos(uploaded_files)[Len(lidos(uploaded_files))].conteudo
         /\ df_padronizado' = mapear_e_padronizar_colunas(
                                  lidos(uploaded_files)[Len(lidos(uploaded_files))].conteudo)

\* the script's run over the uploaded files: read, normalize, unify,
\* deduplicate, process, apply the ledger, compute the statistics
Carregar ==
    /\ fase = "arquivos"
    /\ all_dfs(uploaded_files) # <<>>
    /\ UltimoLido
    /\ df_final' = unificar(uploaded_files)
    /\ processed_df' = quadro(unificar(uploaded_files), data_referencia,
                              atribuicoes_servidores)
    /\ stats' = criar_estatisticas(quadro(unificar(uploaded_files), data_referencia,
                                          atribuicoes_servidores))
    /\ avisos' = avisos_da_leitura(uploaded_files)
    /\ fase' = "painel"
    /\ UNCHANGED <<uploaded_files, data_referencia, atribuicoes_servidores>>

\* the same run when no file is valid: an error message, and the return
CarregarSemValidos ==
    /\ fase = "arquivos"
    /\ all_dfs(uploaded_files) = <<>>
    /\ UltimoLido
    /\ avisos' = avisos_da_leitura(uploaded_files) \o <<NenhumArquivoValido>>
    /\ fase' = "nenhum arquivo válido"
    /\ UNCHANGED <<uploaded_files, df_final, data_referencia, processed_df, stats,
                   atribuicoes_servidores>>

SpecIngest == InitIngest /\ [][Carregar \/ CarregarSemValidos]_vars

\* criar_estatisticas alone, over the batches of LotesDeClasses
InitStats ==
    /\ df_final \in {frame(Colunas, [i \in 1..Len(l) |-> RegistroDaClasse(l[i])]) :
                        l \in LotesDeClasses}
    /\ data_referencia = PrimeiroHoje
    /\ InicioComum

SpecStats == InitStats /\ [][Processar]_vars

\* 22.triagem-contadJEFs.py over one record whose 'dataChegada' is a
\* timestamp, or empty
InitEpoch ==
    /\ df_final \in {frame(Colunas, <<RegistroComCarimbo(c)>>) : c \in Carimbos \cup {NaN}}
    /\ data_referencia = PrimeiroHoje
    /\ InicioComum

Processar22 ==
    /\ fase = "upload"
    /\ processed_df' = processar_dados_22(df_final)
    /\ fase' = "painel"
    /\ UNCHANGED <<df_final, data_referencia, stats, atribuicoes_servidores,
                   uploaded_files, df_lido, df_padronizado, avisos>>

SpecEpoch == InitEpoch /\ [][Processar22]_vars

\* the assignment form over batches longer than the queue
InitFila ==
    /\ df_final \in {frame(Colunas, l) : l \in LotesDaFila}
    /\ data_referencia = PrimeiroHoje
    /\ InicioComum

\* the selections of the model: the first case offered, the last one, or
\* all of them
SelecoesDasPontas ==
    LET fila == processos_para_atribuir(processed_df, atribuicoes_servidores)
    IN  IF fila = <<>> THEN {}
        ELSE {{fila[1].NUMERO_PROCESSO}, {fila[Len(fila)].NUMERO_PROCESSO}, OpcoesDeProcesso}

\* "Confirmar Atribuição em Lote" with one of those selections and the
\* roster's first server, at most MaxServidores times
ConfirmarPontas ==
    /\ fase = "painel"
    /\ Len(atribuicoes_servidores) < MaxServidores
    /\ \E selecionados \in SelecoesDasPontas :
          Atualizar(confirmar(atribuicoes_servidores,
                        processos_para_atribuir(processed_df, atribuicoes_servidores),
                        selecionados, SERVIDORES_DISPONIVEIS[1]))

SpecFila == InitFila /\ [][Processar \/ ConfirmarPontas]_vars

(***************************************************************************)
(* Properties.                                                             *)
(***************************************************************************)
NoPainel == fase = "painel"

NumLinhas == Len(df_final.rows)

\* the processed row of case <<i>>, if processar_dados kept it
presente(i) == \E k \in 1..Len(processed_df) : processed_df[k].NUMERO_PROCESSO = <<i>>

\* the arrival date the run gave case <<i>>, NaT when the record is dropped
chegada_resolvida(i) ==
    IF presente(i)
    THEN <<(CHOOSE r \in {processed_df[k] : k \in 1..Len(processed_df)} :
               r.NUMERO_PROCESSO = <<i>>).data_chegada_obj>>
    ELSE NaT

\* what each of a record's own signals parses to
sinal_formatada(df, i) ==
    IF "DATA_CHEGADA_FORMATADA_INPUT" \in df.cols
    THEN to_datetime(df.rows[i].DATA_CHEGADA_FORMATADA_INPUT) ELSE NaT

sinal_tarefa(df, i) ==
    IF "DATA_CHEGADA_RAW" \in df.cols
    THEN extrair_data_chegada_raw(df.rows[i].DATA_CHEGADA_RAW) ELSE NaT

sinal_dias(df, i, hoje) ==
    IF "DIAS_TRANSCORRIDOS" \in df.cols /\ ~isna(df.rows[i].DIAS_TRANSCORRIDOS)
    THEN <<hoje - df.rows[i].DIAS_TRANSCORRIDOS[1]>> ELSE NaT

cascata_do_registro(df, i, hoje) ==
    IF ~isna(sinal_formatada(df, i)) THEN sinal_formatada(df, i)
    ELSE IF ~isna(sinal_tarefa(df, i)) THEN sinal_tarefa(df, i)
    ELSE sinal_dias(df, i, hoje)

Falhou(i) ==
    /\ isna(sinal_formatada(df_final, i))
    /\ isna(sinal_tarefa(df_final, i))
    /\ isna(sinal_dias(df_final, i, data_referencia))

\* C1: every record's arrival date is the one its own highest-priority
\* parseable signal gives (formatted arrival, then task arrival, then the
\* elapsed-days computation), and the record is Failed only if none of its own
\* signals parses.
C1_CascataPorRegistro ==
    NoPainel =>
        \A i \in 1..NumLinhas :
            chegada_resolvida(i) = cascata_do_registro(df_final, i, data_referencia)

\* C2: the outcome of a record is the same in every batch that differs from
\* this one only in another record.
C2_SemEstadoEntreRegistros ==
    NoPainel =>
        \A i \in 1..NumLinhas : \A j \in (1..NumLinhas) \ {i} : \A q \in RegistrosProc :
            coluna_data_chegada_obj(
                frame(df_final.cols, [df_final.rows EXCEPT ![j] = q]),
                data_referencia)[i] = chegada_resolvida(i)

\* the tag string of the only row of a SpecTags frame, and its tokens
etiquetas_1 == coluna_etiquetas(df_final)[1]
tokens_1 == split(etiquetas_1, ", ")
servidor_1 == processed_df[1].servidor

marcada(t) == t \in Roster \/ contem(t, "Servidor") \/ contem(t, "Supervisão")

TemTokenDoRoster ==
    /\ NoPainel
    /\ ~isna(etiquetas_1)
    /\ \E k \in 1..Len(tokens_1) : tokens_1[k] \in Roster

\* C3 as claimed: when a token of the tag string is a roster entry, the owner
\* is a roster token of the string, whatever the other tokens hold.
C3_RosterTemPrecedencia ==
    TemTokenDoRoster =>
        \E k \in 1..Len(tokens_1) : tokens_1[k] \in Roster /\ servidor_1 = tokens_1[k]

\* C3 amended: when a token of the tag string is a roster entry, the owner is
\* the first token, in order, that is a roster entry or contains "Servidor" or
\* "Supervisão"; it is the roster token when no earlier token contains one.
C3_PrimeiraMarcadaVence ==
    TemTokenDoRoster =>
        /\ \E k \in 1..Len(tokens_1) :
              /\ servidor_1 = tokens_1[k]
              /\ marcada(tokens_1[k])
              /\ \A j \in 1..(k - 1) : ~marcada(tokens_1[j])
        /\ \A k \in 1..Len(tokens_1) :
              (tokens_1[k] \in Roster /\ \A j \in 1..(k - 1) : ~marcada(tokens_1[j]))
                  => servidor_1 = tokens_1[k]

C3_Witness ==
    /\ NoPainel
    /\ etiquetas_1 = <<"Supervisão", ", ", "Servidor", " 01">>
    /\ servidor_1 = <<"Supervisão">>

C5_DonoNoRosterOuSentinela ==
    \A k \in 1..Len(processed_df) :
        processed_df[k].servidor \in Roster \cup Sentinelas

\* C5 amended: every owner is a roster member, one of the two sentinels, or a
\* token of the record's own tag string that contains "Servidor" or
\* "Supervisão".
C5_DonoConhecido ==
    \A k \in 1..Len(processed_df) :
        LET s == processed_df[k].servidor
            e == processed_df[k].ETIQUETAS
        IN  \/ s \in Roster \cup Sentinelas
            \/ /\ ~isna(e)
               /\ \E t \in 1..Len(split(e, ", ")) :
                     /\ split(e, ", ")[t] = s
                     /\ (contem(s, "Servidor") \/ contem(s, "Supervisão"))

C5_Witness ==
    /\ NoPainel
    /\ atribuicoes_servidores # <<>>
    /\ \E k \in 1..Len(processed_df) :
          processed_df[k].servidor \notin Roster \cup Sentinelas
    /\ \E k \in 1..Len(processed_df) :
          /\ processed_df[k].NUMERO_PROCESSO \in processos_ja_atribuidos(atribuicoes_servidores)
          /\ processed_df[k].servidor \in Roster

\* C6: in every processed record, owner and court are not null.
C6_NuncaNulos ==
    NoPainel =>
        \A k \in 1..Len(processed_df) :
            ~isna(processed_df[k].servidor) /\ ~isna(processed_df[k].vara)

\* C7: every processed record has DIAS >= 0.
C7_DiasNaoNegativos ==
    NoPainel => \A k \in 1..Len(processed_df) : processed_df[k].DIAS >= 0

\* the source row of a processed row
origem(linha) == df_final.rows[linha.NUMERO_PROCESSO[1]]

SemChegadaPropria(linha) ==
    /\ isna(sinal_formatada(df_final, linha.NUMERO_PROCESSO[1]))
    /\ isna(sinal_tarefa(df_final, linha.NUMERO_PROCESSO[1]))

\* the calendar date of an epoch timestamp in milliseconds
data_do_movimento(ts) == (ts[1] \div MsPorDia) + 1

C9_DiasRecalculados ==
    NoPainel =>
        \A k \in 1..Len(processed_df) :
            (~SemChegadaPropria(processed_df[k])
                /\ ~isna(origem(processed_df[k]).DIAS_TRANSCORRIDOS))
            => processed_df[k].DIAS = data_referencia - processed_df[k].data_chegada_obj

C9_Witness ==
    /\ NoPainel
    /\ \E k \in 1..Len(processed_df) :
          /\ ~SemChegadaPropria(processed_df[k])
          /\ origem(processed_df[k]).DIAS_TRANSCORRIDOS = <<2>>
          /\ processed_df[k].DIAS # 2

RECURSIVE Soma(_)
Soma(tab) == IF tab = <<>> THEN 0 ELSE Head(tab).n + Soma(Tail(tab))

\* C10 as claimed: a Failed record is still in the batch total and in the
\* owner table, and only the month table leaves it out.
C10_FalhaSoForaDasDatas ==
    NoPainel =>
        \A i \in 1..NumLinhas :
            Falhou(i) =>
                /\ presente(i)
                /\ Soma(stats.servidor) = Len(processed_df)
                /\ Soma(stats.mes) < Len(processed_df)

\* C10 amended: a Failed record is dropped from the processed batch: it is in
\* no table, date-dependent or not, and not in the batch total.
C10_FalhaForaDeTudo ==
    NoPainel =>
        /\ \A i \in 1..NumLinhas : Falhou(i) => ~presente(i)
        /\ Len(processed_df) <= NumLinhas - Cardinality({i \in 1..NumLinhas : Falhou(i)})
        /\ Soma(stats.servidor) = Len(processed_df)
        /\ Soma(stats.mes) = Len(processed_df)
        /\ Soma(stats.polo_passivo) <= Len(processed_df)
        /\ Soma(stats.vara) <= Len(processed_df)
        /\ Soma(stats.assunto) <= Len(processed_df)

C10_Witness ==
    /\ NoPainel
    /\ \E i \in 1..NumLinhas : Falhou(i)
    /\ Len(processed_df) >= 1
    /\ Soma(stats.servidor) = Len(processed_df)

(***************************************************************************)
(* The column normalizer.                                                  *)
(***************************************************************************)
Padronizado == fase = "padronizado"

\* the positions, in the alias list, of the aliases the header carries
presentes(possiveis, columns) ==
    {j \in 1..Len(possiveis) : possiveis[j] \in nomes(columns)}

menor(S) == CHOOSE j \in S : \A m \in S : j <= m

\* C11: for every canonical name of COLUNA_MAP, the column renamed to it is
\* the first alias, in list order, that the input's header carries, whatever
\* the order of the header; when the header carries none of its aliases the
\* canonical column is absent from the output
C11_PrimeiroAliasDaLista ==
    Padronizado =>
        /\ Len(df_padronizado.columns) = Len(df_lido.columns)
        /\ \A e \in 1..Len(COLUNA_MAP) :
            LET pos == COLUNA_MAP[e].possiveis
                pad == COLUNA_MAP[e].padrao
            IN  IF presentes(pos, df_lido.columns) = {}
                THEN pad \notin nomes(df_padronizado.columns)
                ELSE \A k \in 1..Len(df_lido.columns) :
                        df_padronizado.columns[k] = pad
                        <=> df_lido.columns[k] = pos[menor(presentes(pos, df_lido.columns))]

\* a header carrying a later alias before the first one: the first of the
\* list is the one renamed, and the fields with no alias stay absent
C11_Witness ==
    /\ Padronizado
    /\ df_lido.columns = <<"Assunto Principal", "Assunto">>
    /\ df_padronizado.columns = <<"Assunto Principal", "ASSUNTO_PRINCIPAL">>
    /\ "ETIQUETAS" \notin nomes(df_padronizado.columns)

Canonicos == {COLUNA_MAP[k].padrao : k \in 1..Len(COLUNA_MAP)}

\* the run is over and the loop has read at least one file
AlgumLido == fase # "arquivos" /\ lidos(uploaded_files) # <<>>

\* the header name is the alias the normalizer selects for some field
selecionada(nome, columns) ==
    \E e \in 1..Len(COLUNA_MAP) :
        /\ presentes(COLUNA_MAP[e].possiveis, columns) # {}
        /\ nome = COLUNA_MAP[e].possiveis[menor(presentes(COLUNA_MAP[e].possiveis, columns))]

C13_Idempotente ==
    Padronizado => mapear_e_padronizar_colunas(df_padronizado) = df_padronizado

\* C14: the normalizer leaves its input unchanged: at every call site, the
\* frame the caller read still has its original header after the call
C14_EntradaIntacta ==
    [][fase = "leitura" => df_lido'.columns = df_lido.columns]_vars

(***************************************************************************)
(* The upload of several files.                                            *)
(***************************************************************************)
Carregado == fase = "painel" /\ uploaded_files # <<>>

\* the file was read and its header carries an alias of the case number
ingerido(f) ==
    /\ f.legivel
    /\ \E j \in 1..Len(COLUNA_MAP[1].possiveis) :
          COLUNA_MAP[1].possiveis[j] \in nomes(f.conteudo.columns)

\* the case number and the tag string of row i of a file, which every
\* header of Leiautes carries in its first and second column
numero_lido(f, i) == f.conteudo.linhas[i][1]
etiquetas_lidas(f, i) == f.conteudo.linhas[i][2]

\* row i of file k is the first row with its case number, in upload order,
\* then in file order, among the ingested files
primeira_ocorrencia(k, i) ==
    /\ ingerido(uploaded_files[k])
    /\ \A m \in 1..k :
          ingerido(uploaded_files[m]) =>
              \A j \in 1..Len(uploaded_files[m].conteudo.linhas) :
                  (m < k \/ j < i) =>
                      numero_lido(uploaded_files[m], j) # numero_lido(uploaded_files[k], i)

sem_repeticao(linhas) ==
    \A i, j \in 1..Len(linhas) :
        i # j => linhas[i].NUMERO_PROCESSO # linhas[j].NUMERO_PROCESSO

\* C15: after the upload of any sequence of files each case number appears
\* at most once in the unified batch and in the resolved batch, and the row
\* kept for a case is the one of the earliest ingested file, in upload
\* order, that has the case
C15_PrimeiraOcorrenciaVence ==
    Carregado =>
        /\ sem_repeticao(df_final.rows)
        /\ sem_repeticao(processed_df)
        /\ \A k \in 1..Len(uploaded_files) :
              \A i \in 1..Len(uploaded_files[k].conteudo.linhas) :
                  primeira_ocorrencia(k, i) =>
                      /\ \E r \in 1..Len(df_final.rows) :
                            /\ df_final.rows[r].NUMERO_PROCESSO = numero_lido(uploaded_files[k], i)
                            /\ df_final.rows[r].ETIQUETAS = etiquetas_lidas(uploaded_files[k], i)
                      /\ \E r \in 1..Len(processed_df) :
                            /\ processed_df[r].NUMERO_PROCESSO = numero_lido(uploaded_files[k], i)
                            /\ processed_df[r].ETIQUETAS = etiquetas_lidas(uploaded_files[k], i)

\* two ingested files carry case 1 with different tags, under different
\* headers
C15_Witness ==
    /\ Carregado
    /\ Len(uploaded_files) = 2
    /\ uploaded_files[1].conteudo.columns = LeiauteApi
    /\ uploaded_files[2].conteudo.columns = LeiautePainel
    /\ numero_lido(uploaded_files[1], 1) = <<1>>
    /\ numero_lido(uploaded_files[2], 1) = <<1>>
    /\ etiquetas_lidas(uploaded_files[1], 1) = EtiquetaDoServidor
    /\ etiquetas_lidas(uploaded_files[2], 1) = NaN
    /\ Len(df_final.rows) = 1

campo(nome) == [k \in 1..Len(processed_df) |-> processed_df[k][nome]]

ocorrencias(vals, v) == Cardinality({i \in 1..Len(vals) : vals[i] = v})

primeira(vals, v) == menor({i \in 1..Len(vals) : vals[i] = v})

\* a precedes b in a table by count: more cases, or as many and seen first
precede(vals, a, b) ==
    \/ ocorrencias(vals, a) > ocorrencias(vals, b)
    \/ /\ ocorrencias(vals, a) = ocorrencias(vals, b)
       /\ primeira(vals, a) < primeira(vals, b)

nao_crescente(tab) == \A p \in 1..(Len(tab) - 1) : tab[p].n >= tab[p + 1].n

\* the table holds the limite values of vals that precede all the others,
\* each once, with its count, in that order
tabela_por_contagem(tab, vals, limite) ==
    LET distintos == {vals[i] : i \in 1..Len(vals)} \ {NaN}
    IN  /\ Len(tab) = IF Cardinality(distintos) < limite
                      THEN Cardinality(distintos) ELSE limite
        /\ \A p \in 1..Len(tab) :
              /\ tab[p].valor \in distintos
              /\ tab[p].n = ocorrencias(vals, tab[p].valor)
              /\ \A q \in (p + 1)..Len(tab) : precede(vals, tab[p].valor, tab[q].valor)
              /\ \A v \in distintos :
                    (\A q \in 1..Len(tab) : tab[q].valor # v)
                    => precede(vals, tab[p].valor, v)

sem_dono == {k \in 1..Len(processed_df) : processed_df[k].servidor \in Sentinelas}

baldes == {p \in 1..Len(stats.servidor) : stats.servidor[p].valor = SemOuNaoAtribuido}

\* C18: in the owner table no sentinel owner has an entry of its own; when
\* some record has a sentinel owner the table has exactly one unassigned
\* entry, counting those records, and when none has, it has no such entry
C18_UmBaldeParaAsSentinelas ==
    NoPainel =>
        /\ \A p \in 1..Len(stats.servidor) : stats.servidor[p].valor \notin Sentinelas
        /\ sem_dono # {} =>
              /\ Cardinality(baldes) = 1
              /\ \A p \in baldes : stats.servidor[p].n = Cardinality(sem_dono)
        /\ sem_dono = {} => baldes = {}

\* a record of each sentinel, counted together
C18_Witness ==
    /\ NoPainel
    /\ \E k \in sem_dono : processed_df[k].servidor = SemEtiqueta
    /\ \E k \in sem_dono : processed_df[k].servidor = NaoAtribuido
    /\ \E p \in baldes : stats.servidor[p].n = 2

(***************************************************************************)
(* Missing tag column, invalid elapsed days.                               *)
(***************************************************************************)
\* C19: when the frame has no tag column processar_dados does not fail and
\* every record's owner is "Sem etiqueta", as for an absent tag string
C19_SemColunaSemEtiqueta ==
    (NoPainel /\ "ETIQUETAS" \notin df_final.cols) =>
        /\ Len(processed_df) = NumLinhas
        /\ \A k \in 1..Len(processed_df) : processed_df[k].servidor = SemEtiqueta

\* C20: in the retroactive computation a negative elapsed-days value derives
\* no arrival date, so no record is dated after the reference date by it
C20_DiasNegativosNaoResolvem ==
    (NoPainel /\ dias_do_painel(df_final)) =>
        /\ \A i \in 1..NumLinhas :
              (/\ ~isna(df_final.rows[i].DIAS_TRANSCORRIDOS)
               /\ df_final.rows[i].DIAS_TRANSCORRIDOS[1] < 0)
              => ~presente(i)
        /\ \A k \in 1..Len(processed_df) :
              processed_df[k].data_chegada_obj <= data_referencia

(***************************************************************************)
(* The timestamps of 22.triagem-contadJEFs.py.                             *)
(***************************************************************************)
carimbo == df_final.rows[1].DATA_CHEGADA_RAW

\* the number 1000 * q + r is greater than 253402300799
em_milissegundos(c) == c[1] >= 253402301 \/ (c[1] = 253402300 /\ c[2] >= 800)

\* the day of the number read as milliseconds, and read as seconds
dia_se_milissegundos(c) == c[1] \div 86400
dia_se_segundos(c) == CHOOSE d \in (c[1] \div 87)..(c[1] \div 86) :
                          /\ 432 * d <= 5 * c[1] + c[2] \div 200
                          /\ 5 * c[1] + c[2] \div 200 < 432 * (d + 1)

data_do_carimbo(c) ==
    IF em_milissegundos(c) THEN dia_se_milissegundos(c) ELSE dia_se_segundos(c)

varas_1 == {k \in 1..Len(tokens_1) : contem(tokens_1[k], "Vara Federal")}

\* the court the tag string gives: its first token containing "Vara
\* Federal", the sentinel when it is absent or has none
vara_da_etiqueta_1 ==
    IF isna(etiquetas_1) \/ varas_1 = {} THEN VaraNaoIdentificada
    ELSE tokens_1[menor(varas_1)]

\* C22: the court is the first token of the tag string, in tag order, that
\* contains "Vara Federal"; when the string is absent or has no such token
\* it is the record's adjudicating body if the frame has that column, and
\* the sentinel "Vara não identificada" otherwise; a court found in the
\* tags is never replaced
C22_VaraDaEtiquetaOuDoOrgao ==
    NoPainel =>
        processed_df[1].vara =
            IF vara_da_etiqueta_1 = VaraNaoIdentificada /\ "ORGAO_JULGADOR" \in df_final.cols
            THEN df_final.rows[1].ORGAO_JULGADOR
            ELSE vara_da_etiqueta_1

\* two court tokens and an adjudicating body: the first token is the court
C22_Witness ==
    /\ NoPainel
    /\ etiquetas_1 = <<"Vara Federal", " 01", ", ", "Vara Federal">>
    /\ "ORGAO_JULGADOR" \in df_final.cols
    /\ df_final.rows[1].ORGAO_JULGADOR = <<"15a Vara">>
    /\ processed_df[1].vara = <<"Vara Federal", " 01">>

dono_das_etiquetas(r) == extrair_servidor(r.ETIQUETAS)

\* the batch as processar_dados leaves it, before the ledger is applied
resolvido == processar_dados(df_final, data_referencia)

OutrosCampos ==
    {"NUMERO_PROCESSO", "POLO_PASSIVO", "ORGAO_JULGADOR", "ASSUNTO_PRINCIPAL",
     "ETIQUETAS", "vara", "data_chegada_obj", "mes", "dia", "DIAS"}

\* C24: the overrides keep the records of the batch and their order, change
\* no field but the owner, change no record whose case has no ledger entry,
\* and the statistics are those of the batch after the overrides
C24_SoODonoDosAtribuidos ==
    NoPainel =>
        LET antes == resolvido
        IN  /\ Len(processed_df) = Len(antes)
            /\ \A k \in 1..Len(processed_df) :
                  /\ \A c \in OutrosCampos : processed_df[k][c] = antes[k][c]
                  /\ processed_df[k].NUMERO_PROCESSO
                         \notin processos_ja_atribuidos(atribuicoes_servidores)
                     => processed_df[k] = antes[k]
            /\ stats = criar_estatisticas(processed_df)

\* one record overridden beside one the ledger does not name
C24_Witness ==
    /\ NoPainel
    /\ Len(processed_df) = 2
    /\ \E k \in 1..2 :
          /\ processed_df[k].NUMERO_PROCESSO \in processos_ja_atribuidos(atribuicoes_servidores)
          /\ processed_df[k].servidor # dono_das_etiquetas(processed_df[k])
    /\ \E k \in 1..2 :
          /\ processed_df[k].NUMERO_PROCESSO \notin processos_ja_atribuidos(atribuicoes_servidores)
          /\ processed_df[k].servidor \notin Sentinelas

\* C25: a step that takes entries out of the ledger takes them all out,
\* whatever assignments came before, and the refresh that follows shows
\* every record with the owner its tags give
C25_LimparEsvaziaERestaura ==
    [][(NoPainel /\ atribuicoes_servidores # <<>>
           /\ \E a \in 1..Len(atribuicoes_servidores) :
                 atribuicoes_servidores[a].NUMERO_PROCESSO
                     \notin processos_ja_atribuidos(atribuicoes_servidores'))
       => /\ atribuicoes_servidores' = <<>>
          /\ Len(processed_df') = Len(processed_df)
          /\ \A k \in 1..Len(processed_df') :
                processed_df'[k].servidor = dono_das_etiquetas(processed_df'[k])
          /\ stats' = criar_estatisticas(processed_df')]_vars

\* a ledger of two entries, each overriding a record of the batch: the state
\* the clear acts on
C25_Witness ==
    /\ NoPainel
    /\ Len(atribuicoes_servidores) = 2
    /\ Len(processed_df) = 2
    /\ \A k \in 1..2 : processed_df[k].servidor # dono_das_etiquetas(processed_df[k])

(***************************************************************************)
(* The files of an upload that are skipped.                                *)
(***************************************************************************)
Lido == fase \in {"painel", "nenhum arquivo válido"} /\ uploaded_files # <<>>

usaveis == {k \in 1..Len(uploaded_files) : ingerido(uploaded_files[k])}

numeros_de(k) ==
    {numero_lido(uploaded_files[k], i) : i \in 1..Len(uploaded_files[k].conteudo.linhas)}

\* C26: after an upload each file that could not be read, or that has no
\* case number column, has one message of its own and gives the unified
\* batch no row; every case of every other file is in the unified batch;
\* and the run stops, with one more message, exactly when no file is usable
C26_SoOsInutilizaveisSaoPulados ==
    Lido =>
        /\ \A k \in 1..Len(uploaded_files) :
              Cardinality({a \in 1..Len(avisos) : avisos[a].arquivo = k})
                  = IF k \in usaveis THEN 0 ELSE 1
        /\ (fase = "nenhum arquivo válido") <=> (usaveis = {})
        /\ Cardinality({a \in 1..Len(avisos) : avisos[a] = NenhumArquivoValido})
              = IF usaveis = {} THEN 1 ELSE 0
        /\ \A k \in usaveis : \A n \in numeros_de(k) :
              \E r \in 1..Len(df_final.rows) : df_final.rows[r].NUMERO_PROCESSO = n
        /\ Len(df_final.rows) = Cardinality(UNION {numeros_de(k) : k \in usaveis})

\* a file that cannot be read, then a file of two cases, both in the batch
C26_Witness ==
    /\ fase = "painel"
    /\ Len(uploaded_files) = 2
    /\ ~uploaded_files[1].legivel
    /\ ingerido(uploaded_files[2])
    /\ Len(df_final.rows) = 2
    /\ Len(avisos) = 1

(***************************************************************************)
(* Conservation in the owner table.                                        *)
(***************************************************************************)
\* C27: the counts of the owner table, the unassigned entry included, add
\* up to the number of records of the processed batch, for the batch as
\* resolved and for the batch after the overrides, whose table is the one
\* shown
C27_ContagensSomamOLote ==
    NoPainel =>
        /\ LET antes == resolvido
           IN  Soma(servidor_stats(antes)) = Len(antes)
        /\ Soma(servidor_stats(processed_df)) = Len(processed_df)
        /\ stats.servidor = servidor_stats(processed_df)
        /\ \A p \in 1..Len(stats.servidor) : stats.servidor[p].n >= 1

\* after an override: one record of a named owner, one without owner
C27_Witness ==
    /\ NoPainel
    /\ atribuicoes_servidores # <<>>
    /\ Len(processed_df) = 2
    /\ Len(stats.servidor) = 2
    /\ \E p \in baldes : stats.servidor[p].n = 1
    /\ Soma(servidor_stats(resolvido)) = 2
    /\ Len(servidor_stats(resolvido)) = 1

(***************************************************************************)
(* The assignment form.                                                    *)
(***************************************************************************)
\* C28: after any sequence of confirmations, with or without a server and
\* cases selected, and of clears, the owner of every ledger entry is a
\* member of the roster, and no record shows an empty owner
C28_DonosDoLedgerNoRoster ==
    /\ \A a \in 1..Len(atribuicoes_servidores) :
          atribuicoes_servidores[a].servidor \in Roster
    /\ \A k \in 1..Len(processed_df) : processed_df[k].servidor # OpcaoVazia

\* one case assigned, another still offered: the form can be confirmed with
\* the empty option or with no case
C28_Witness ==
    /\ NoPainel
    /\ Len(atribuicoes_servidores) = 1
    /\ atribuicoes_servidores[1].servidor \in Roster
    /\ OpcoesDeProcesso # {}

\* every case offered in the form has a sentinel owner and no ledger entry
OferecidosSemDono ==
    \A n \in OpcoesDeProcesso :
        /\ n \notin processos_ja_atribuidos(atribuicoes_servidores)
        /\ \A k \in 1..Len(processed_df) :
              processed_df[k].NUMERO_PROCESSO = n => processed_df[k].servidor \in Sentinelas

\* C29: the cases offered for assignment have a sentinel owner and no
\* ledger entry, before and after every step; and a step either empties
\* the ledger or keeps each of its entries as written, once each
C29_EntradaFicaComoEscrita ==
    [][/\ OferecidosSemDono
       /\ OferecidosSemDono'
       /\ \/ atribuicoes_servidores' = <<>>
          \/ \A a \in 1..Len(atribuicoes_servidores) :
                Cardinality({b \in 1..Len(atribuicoes_servidores') :
                    atribuicoes_servidores'[b].NUMERO_PROCESSO
                        = atribuicoes_servidores[a].NUMERO_PROCESSO}) = 1
                /\ \E b \in 1..Len(atribuicoes_servidores') :
                      atribuicoes_servidores'[b] = atribuicoes_servidores[a]]_vars

\* a case with a ledger entry, no longer offered, beside one still offered
C29_Witness ==
    /\ NoPainel
    /\ Len(atribuicoes_servidores) = 1
    /\ OpcoesDeProcesso # {}
    /\ atribuicoes_servidores[1].NUMERO_PROCESSO \notin OpcoesDeProcesso
    /\ \E k \in 1..Len(processed_df) :
          /\ processed_df[k].NUMERO_PROCESSO = atribuicoes_servidores[1].NUMERO_PROCESSO
          /\ dono_das_etiquetas(processed_df[k]) \in Sentinelas
          /\ processed_df[k].servidor \in Roster

(***************************************************************************)
(* The queue of the assignment form.                                       *)
(***************************************************************************)
\* the records with a sentinel owner and no ledger entry
disponiveis_agora ==
    {k \in 1..Len(processed_df) :
        /\ processed_df[k].servidor \in Sentinelas
        /\ \A a \in 1..Len(atribuicoes_servidores) :
              atribuicoes_servidores[a].NUMERO_PROCESSO # processed_df[k].NUMERO_PROCESSO}

oferecidos_agora ==
    {k \in disponiveis_agora : processed_df[k].NUMERO_PROCESSO \in OpcoesDeProcesso}

\* record a comes before record b: an earlier arrival, or the same arrival
\* and a smaller case number
vem_antes(a, b) ==
    \/ a.data_chegada_obj < b.data_chegada_obj
    \/ /\ a.data_chegada_obj = b.data_chegada_obj
       /\ a.NUMERO_PROCESSO[1] < b.NUMERO_PROCESSO[1]

FilaDosMaisAntigos ==
    LET fila == processos_para_atribuir(processed_df, atribuicoes_servidores)
        disponiveis == disponiveis_agora
        oferecidos == {k \in disponiveis :
                          \E i \in 1..Len(fila) :
                              fila[i].NUMERO_PROCESSO = processed_df[k].NUMERO_PROCESSO}
        preteridos == disponiveis \ oferecidos
    IN  /\ Len(fila) <= 10
        /\ Len(fila) = IF Cardinality(disponiveis) < 10 THEN Cardinality(disponiveis) ELSE 10
        /\ Cardinality(oferecidos) = Len(fila)
        /\ \A i, j \in 1..Len(fila) : i < j => vem_antes(fila[i], fila[j])
        /\ \A o \in oferecidos : \A x \in preteridos :
              vem_antes(processed_df[o], processed_df[x])

\* C30: in every state the form offers at most 10 cases, all of them
\* available, none arrived later than an available case not offered, equal
\* arrivals in ascending case number; and every case a step writes to the
\* ledger was offered before the step
C30_FilaDosDezMaisAntigos ==
    /\ []FilaDosMaisAntigos
    /\ [][processos_ja_atribuidos(atribuicoes_servidores')
              \ processos_ja_atribuidos(atribuicoes_servidores) \subseteq OpcoesDeProcesso]_vars

\* more than 10 cases available after an assignment, and the queue cut
\* between two cases of the same arrival
C30_Witness ==
    /\ NoPainel
    /\ atribuicoes_servidores # <<>>
    /\ Cardinality(disponiveis_agora) > 10
    /\ \E o \in oferecidos_agora : \E x \in disponiveis_agora \ oferecidos_agora :
          processed_df[o].data_chegada_obj = processed_df[x].data_chegada_obj
    /\ \E o, x \in oferecidos_agora :
          processed_df[o].data_chegada_obj < processed_df[x].data_chegada_obj
====
